---------------------------- MODULE Spec2Model ----------------------------
(***************************************************************************)
(* Model of src/knowledge_search_tool.py: the Tools class with its two     *)
(* asynchronous handlers, search_knowledge and                             *)
(* list_available_knowledge_bases.  An invocation is a coroutine; each     *)
(* `await __event_emitter__(...)` is a suspension point, so a handler is   *)
(* modelled as a sequence of actions that end at the awaits.  Text is      *)
(* modelled by TLA+ strings and is built the way the f-strings build it.   *)
(***************************************************************************)
EXTENDS FiniteSets, Integers, Sequences, TLC

VARIABLES
    valves,   \* self.valves: the configuration object shared by invocations
    pc,       \* pc[p]: the position of invocation p
    args,     \* args[p]: the arguments invocation p was called with
    local,    \* local[p]: the local variables of invocation p
    emits,    \* emits[p]: the emissions p attempted on its sink, with outcome
    calls,    \* calls[p]: the external calls p made, with their outcome
    ret       \* ret[p]: the text p returned ("" until it returns)

vars == <<valves, pc, args, local, emits, calls, ret>>

\* ------------------------------------------------------------------ bounds

\* The longest knowledge-base selector drawn over Alphabet.
MaxSelLen == 3
\* The most documents one retrieval result carries.
MaxDocs == 2
\* The invocations that may run concurrently on one Tools instance.
NumProcs == 2

Procs == 1..NumProcs

\* ------------------------------------------------------------- python values

\* Optional values: None is the empty tuple, a present value v is <<v>>.
None == <<>>
Some(v) == <<v>>

\* dict.get(key, default) on a dict modelled as a function over its keys.
Get(d, key, default) == IF key \in DOMAIN d THEN d[key] ELSE default

Min(a, b) == IF a < b THEN a ELSE b

\* ------------------------------------------------------------------ strings

Char(s, i) == SubSeq(s, i, i)

\* The characters str.strip() removes (the ones that occur in this model).
IsSpace(c) == c \in {" ", "\t", "\n"}

RECURSIVE LStrip(_)
LStrip(s) ==
    IF s = "" THEN ""
    ELSE IF IsSpace(Char(s, 1)) THEN LStrip(SubSeq(s, 2, Len(s)))
    ELSE s

RECURSIVE RStrip(_)
RStrip(s) ==
    IF s = "" THEN ""
    ELSE IF IsSpace(Char(s, Len(s))) THEN RStrip(SubSeq(s, 1, Len(s) - 1))
    ELSE s

\* str.strip()
Strip(s) == RStrip(LStrip(s))

\* str.find(sep) for a one-character sep, 1-based; 0 when absent.
RECURSIVE FindFrom(_, _, _)
FindFrom(s, sep, i) ==
    IF i > Len(s) THEN 0
    ELSE IF Char(s, i) = sep THEN i
    ELSE FindFrom(s, sep, i + 1)

\* str.split(sep): scans left to right, cutting at every sep.
RECURSIVE Split(_, _)
Split(s, sep) ==
    LET k == FindFrom(s, sep, 1)
    IN  IF k = 0 THEN <<s>>
        ELSE <<SubSeq(s, 1, k - 1)>> \o Split(SubSeq(s, k + 1, Len(s)), sep)

\* A comprehension that forgets kb.strip().
SplitStripNoStrip(s) == Split(s, ",")

\* [kb.strip() for kb in s.split(",")]
SplitStrip(s) ==
    LET parts == Split(s, ",")
    IN  [k \in 1..Len(parts) |-> Strip(parts[k])]

\* "\n".join(parts)
RECURSIVE Join(_, _)
Join(parts, sep) ==
    IF Len(parts) = 0 THEN ""
    ELSE IF Len(parts) = 1 THEN parts[1]
    ELSE parts[1] \o sep \o Join(Tail(parts), sep)

\* round(distance, 3), a distance d standing for d / 10000.
Round3(d) ==
    LET r == d % 10
    IN  IF r < 5 THEN d - r
        ELSE IF r > 5 THEN d - r + 10
        ELSE IF ((d - r) \div 10) % 2 = 0 THEN d - r ELSE d - r + 10


\* -------------------------------------------------------------------- texts

\* Valves: the defaults of the three fields.
DefaultTopK == 5
DefaultRelevanceThreshold == 0

Valves(default_knowledge_bases) ==
    [default_knowledge_bases |-> default_knowledge_bases,
     top_k |-> DefaultTopK,
     relevance_threshold |-> DefaultRelevanceThreshold]

Status(description, done) ==
    [type |-> "status", data |-> [description |-> description, done |-> done]]

StartStatus == Status("Searching knowledge bases...", FALSE)

NoKBText == "Error: No knowledge bases specified. Please provide knowledge_base_ids parameter or configure default knowledge bases in tool settings."

NoResultStatus == Status("No relevant knowledge found", TRUE)

\* A text that does not name the query.
NoResultTextNoQuery(query) ==
    "No relevant information found in the knowledge bases for query"

NoResultText(query) ==
    "No relevant information found in the knowledge bases for query: '" \o query \o "'"

\* metadata.get("source", f"Source {citation_id}")
SourceName(metadata, citation_id) ==
    Get(metadata, "source", "Source " \o ToString(citation_id))

CitationEvent(doc, metadata, distance, citation_id) ==
    [type |-> "citation",
     data |-> [document |-> <<doc>>,
               metadata |-> <<[source |-> SourceName(metadata, citation_id),
                               file_id |-> Get(metadata, "file_id", ""),
                               relevance_score |-> Round3(distance)]>>,
               source |-> [name |-> SourceName(metadata, citation_id),
                           url |-> "#file-" \o Get(metadata, "file_id", "")]]]

\* f'<source id="{citation_id}" name="{source_name}">{doc}</source>\n\n'
Block(citation_id, source_name, doc) ==
    "<source id=\"" \o ToString(citation_id) \o "\" name=\"" \o source_name
        \o "\">" \o doc \o "</source>\n\n"

CompleteStatus(n) ==
    Status("Found " \o ToString(n) \o " relevant documents", TRUE)

FinalHead == "Here is the relevant information from the knowledge bases:\n\n<context>\n"

FinalTail == "\n</context>\n\nUse the information above to answer the user's question. When referencing specific information, include inline citations using [1], [2], etc., corresponding to the source IDs in the <source> tags. Do not include the XML tags in your response."

FinalText(formatted_context) == FinalHead \o Strip(formatted_context) \o FinalTail

\* An error text that drops the exception's message.
ErrorMsgNoMessage(m) == "Error searching knowledge bases: "

\* f"Error searching knowledge bases: {str(e)}"
ErrorMsg(m) == "Error searching knowledge bases: " \o m

ListErrorMsg(m) == "Error listing knowledge bases: " \o m

NoneAvailableText == "No knowledge bases are currently available."

\* One entry of the listing.  The source wraps the id in backquotes, a
\* character a TLA+ string cannot hold: Tick stands for it.
Tick == "'"

KbEntry(kb) ==
    LET kb_data == IF kb.data = None THEN <<>> ELSE kb.data[1]
        file_count == Len(Get(kb_data, "file_ids", <<>>))
    IN  "- **" \o kb.name \o "** (ID: " \o Tick \o kb.id \o Tick \o ")\n"
            \o "  Description: "
            \o (IF kb.description = None \/ kb.description = Some("")
                THEN "No description" ELSE kb.description[1])
            \o "\n"
            \o "  Files: " \o ToString(file_count)

ListText(knowledge_bases) ==
    Join(<<"Available knowledge bases:\n">>
            \o [k \in 1..Len(knowledge_bases) |-> KbEntry(knowledge_bases[k])],
         "\n")

\* ------------------------------------------------------------------- inputs

\* Selector strings are drawn over these characters.
Alphabet == {"a", ",", " "}

RECURSIVE StrsOfLen(_)
StrsOfLen(k) ==
    IF k = 0 THEN {""} ELSE {c \o s : c \in Alphabet, s \in StrsOfLen(k - 1)}

Strings(n) == UNION {StrsOfLen(k) : k \in 0..n}

\* The selector of the specification's example.
ExampleSelector == "a, b ,c"

\* knowledge_base_ids: None, or a string.
Selectors == {None} \cup {Some(s) : s \in Strings(MaxSelLen) \cup {ExampleSelector}}
FewSelectors == {None, Some(""), Some("kb1, kb2")}

\* valves.default_knowledge_bases as the administrator may have set it.
Defaults == {"", " kb0,kb9 "}

Queries == {"leave policy"}

\* __user__: None, a dict with an empty id, a dict with an id.
UserArgs == {None, [id |-> ""], [id |-> "u1"]}

DocTexts == {"alpha", "beta \n"}
DocLists(n) == UNION {[1..k -> DocTexts] : k \in 0..n}

\* A metadata dict: empty, or with a source and a file id.
Metas == {<<>>, [source |-> "handbook.pdf", file_id |-> "f1"]}

\* Distances, in ten-thousandths.
Distances == {1234}

\* What query_collection may return: None (or {}), a dict whose documents
\* list is empty, a dict with documents only, and a dict with documents, at
\* most as many metadata records, and as many distances.
Results(n) ==
    {<<>>, [documents |-> <<>>]}
    \cup {[documents |-> <<d>>] : d \in DocLists(n)}
    \cup UNION {UNION {{[documents |-> <<d>>, metadatas |-> <<m>>,
                         distances |-> <<x>>]
                        : m \in [1..k -> Metas], x \in [1..Len(d) -> Distances]}
                       : k \in 0..Len(d)}
                : d \in DocLists(n)}

\* Results with parallel lists only, of one document text.
FewResults(n) ==
    {<<>>}
    \cup UNION {{[documents |-> <<[j \in 1..k |-> "alpha"]>>,
                   metadatas |-> <<[j \in 1..k |-> <<>>]>>,
                   distances |-> <<x>>] : x \in [1..k -> Distances]}
                : k \in 1..n}

\* No result, and two documents, the second without a source.
ConcResults ==
    {<<>>} \cup
    {[documents |-> <<<<"alpha", "beta \n">>>>,
      metadatas |-> <<<<[source |-> "handbook.pdf", file_id |-> "f1"], <<>>>>>>,
      distances |-> <<x>>] : x \in [1..2 -> Distances]}

Raises(src, msg) == [raises |-> TRUE, src |-> src, msg |-> msg, value |-> None]
Returns(value) == [raises |-> FALSE, src |-> "", msg |-> "", value |-> value]

\* Users.get_user_by_id: a user record, None, or an exception.
UserOutcomes(id) ==
    {Returns(Some([id |-> id, role |-> "user"])), Returns(None),
     Raises("users", "user lookup failed")}

\* query_collection: a result or an exception.
RetrievalOutcomes(results) ==
    {Returns(r) : r \in results} \cup {Raises("retrieval", "collection not found")}

\* The knowledge-base registry: descriptors, and who may read which.
Registry ==
    <<[id |-> "kb1", name |-> "Policies", description |-> Some("HR policies"),
       data |-> Some([file_ids |-> <<"f1", "f2">>])],
      [id |-> "kb2", name |-> "Secrets", description |-> Some(""),
       data |-> Some(<<>>)],
      [id |-> "kb3", name |-> "Docs", description |-> None, data |-> None]>>

Readers(kb_id) == IF kb_id \in {"kb1", "kb3"} THEN {"u1"} ELSE {}

RECURSIVE Pick(_, _, _)
Pick(seq, S, i) ==
    IF i > Len(seq) THEN <<>>
    ELSE (IF i \in S THEN <<seq[i]>> ELSE <<>>) \o Pick(seq, S, i + 1)

SubLists(seq) == {Pick(seq, S, 1) : S \in SUBSET (1..Len(seq))}

\* Knowledges.get_knowledge_bases(): any part of the registry, or an exception.
AllOutcomes ==
    {Returns(l) : l \in SubLists(Registry)}
    \cup {Raises("registry", "database is locked")}

\* Knowledges.get_knowledge_bases_by_user_id(id, permission): any part of
\* the registry that id holds the permission on, or an exception.
ByUserOutcomes(id, permission) ==
    {Returns(l) : l \in SubLists(SelectSeq(Registry,
                        LAMBDA kb : permission = "read" /\ id \in Readers(kb.id)))}
    \cup {Raises("registry", "database is locked")}

SinkError == [src |-> "sink", msg |-> "sink closed"]

\* -------------------------------------------------------------------- state

InitLocal ==
    [kb_ids |-> <<>>, user_obj |-> None, documents |-> <<>>, metadatas |-> <<>>,
     distances |-> <<>>, i |-> 0, formatted_context |-> "", e |-> None]

NoArgs ==
    [fn |-> "", query |-> "", knowledge_base_ids |-> None,
     event_emitter |-> FALSE, user |-> None]

\* Tools.__init__, followed by the administrator's setting of the valves.
Init ==
    /\ valves \in {Valves(d) : d \in Defaults}
    /\ pc = [p \in Procs |-> "idle"]
    /\ args = [p \in Procs |-> NoArgs]
    /\ local = [p \in Procs |-> InitLocal]
    /\ emits = [p \in Procs |-> <<>>]
    /\ calls = [p \in Procs |-> <<>>]
    /\ ret = [p \in Procs |-> ""]

\* Python truthiness of an optional string.
Truthy(o) == o # None /\ o[1] # ""

\* __user__ and __user__.get("id")
HasId(user) == user # None /\ Get(user, "id", "") # ""

\* The events the sink of p took, in order.
Events(p) ==
    LET ok == SelectSeq(emits[p], LAMBDA a : a.ok)
    IN  [k \in 1..Len(ok) |-> ok[k].event]

\* await __event_emitter__(event): the sink takes the event, or raises.
Emit(p, event, ok) ==
    emits' = [emits EXCEPT ![p] = Append(@, [event |-> event, ok |-> ok])]

\* The caller invokes search_knowledge.
InvokeSearch(p, in) ==
    /\ pc[p] = "idle"
    /\ \E query \in Queries, sel \in in.selectors, em \in in.emitters,
          user \in in.users :
          args' = [args EXCEPT ![p] =
                      [fn |-> "search_knowledge", query |-> query,
                       knowledge_base_ids |-> sel, event_emitter |-> em,
                       user |-> user]]
    /\ pc' = [pc EXCEPT ![p] = "line68"]
    /\ UNCHANGED <<valves, local, emits, calls, ret>>

\* The caller invokes list_available_knowledge_bases.
InvokeList(p, in) ==
    /\ pc[p] = "idle"
    /\ \E em \in in.emitters, user \in in.users :
          args' = [args EXCEPT ![p] =
                      [fn |-> "list_available_knowledge_bases", query |-> "",
                       knowledge_base_ids |-> None, event_emitter |-> em,
                       user |-> user]]
    /\ pc' = [pc EXCEPT ![p] = "line195"]
    /\ UNCHANGED <<valves, local, emits, calls, ret>>

\* Lines 68-75: the "searching" status, emitted before the try block.  An
\* exception of the sink leaves the coroutine.
SearchStart(p) ==
    /\ pc[p] = "line68"
    /\ \/ /\ ~args[p].event_emitter
          /\ pc' = [pc EXCEPT ![p] = "line77"]
          /\ UNCHANGED <<emits, local>>
       \/ /\ args[p].event_emitter
          /\ Emit(p, StartStatus, TRUE)
          /\ pc' = [pc EXCEPT ![p] = "line77"]
          /\ UNCHANGED local
       \/ /\ args[p].event_emitter
          /\ Emit(p, StartStatus, FALSE)
          /\ pc' = [pc EXCEPT ![p] = "raised"]
          /\ local' = [local EXCEPT ![p].e = Some(SinkError)]
    /\ UNCHANGED <<valves, args, calls, ret>>

\* Lines 79-84: the knowledge bases to search, None when there are none.
ResolveKbIds(knowledge_base_ids, default_knowledge_bases) ==
    IF Truthy(knowledge_base_ids) THEN Some(SplitStrip(knowledge_base_ids[1]))
    ELSE IF default_knowledge_bases # "" THEN Some(SplitStrip(default_knowledge_bases))
    ELSE None

\* Line 108: not result or not result.get("documents") or not result["documents"][0]
IsEmptyResult(result) ==
    LET d == Get(result, "documents", <<>>)
    IN  d = <<>> \/ d[1] = <<>>

\* The length of zip(documents, metadatas, distances).
ZipLen(l) == Min(Len(l.documents), Min(Len(l.metadatas), Len(l.distances)))

UserCall(id, outcome) ==
    [fn |-> "Users.get_user_by_id", id |-> id, outcome |-> outcome]

\* The retrieval call, and the call of the embedding function it is given.
RetrievalCalls(kb_ids, query, user_obj, outcome) ==
    <<[fn |-> "query_collection", collection_names |-> kb_ids,
       queries |-> <<query>>, k |-> valves.top_k, outcome |-> outcome],
      [fn |-> "EMBEDDING_FUNCTION", queries |-> <<query>>, prefix |-> "",
       user |-> user_obj]>>

\* Lines 77-108 and 119-124: resolution, the two external calls, and the
\* branch on the result; no await in between.
SearchTry(p, results) ==
    /\ pc[p] = "line77"
    /\ LET a == args[p]
           kb == ResolveKbIds(a.knowledge_base_ids, valves.default_knowledge_bases)
       IN  \/ /\ kb = None
              /\ ret' = [ret EXCEPT ![p] = NoKBText]
              /\ pc' = [pc EXCEPT ![p] = "done"]
              /\ UNCHANGED <<local, calls>>
           \/ /\ kb # None
              /\ HasId(a.user)
              /\ calls' = [calls EXCEPT ![p] =
                    @ \o <<UserCall(a.user.id, Raises("users", "user lookup failed"))>>]
              /\ local' = [local EXCEPT ![p].kb_ids = kb[1],
                              ![p].e = Some([src |-> "users", msg |-> "user lookup failed"])]
              /\ pc' = [pc EXCEPT ![p] = "line169"]
              /\ UNCHANGED ret
           \/ /\ kb # None
              /\ \E uo \in (IF HasId(a.user)
                            THEN {o \in UserOutcomes(a.user.id) : ~o.raises}
                            ELSE {Returns(None)}),
                    ro \in RetrievalOutcomes(results) :
                    LET before == IF HasId(a.user)
                                  THEN <<UserCall(a.user.id, uo)>> ELSE <<>>
                        result == ro.value
                        l == [local[p] EXCEPT !.kb_ids = kb[1], !.user_obj = uo.value]
                        docs == [l EXCEPT
                                   !.documents = result.documents[1],
                                   !.metadatas = Get(result, "metadatas", <<<<>>>>)[1],
                                   !.distances = Get(result, "distances", <<<<>>>>)[1]]
                    IN  /\ calls' = [calls EXCEPT ![p] =
                              @ \o before
                                \o RetrievalCalls(kb[1], a.query, uo.value, ro)]
                        /\ IF ro.raises
                           THEN /\ local' = [local EXCEPT ![p] =
                                      [l EXCEPT !.e = Some([src |-> ro.src, msg |-> ro.msg])]]
                                /\ pc' = [pc EXCEPT ![p] = "line169"]
                           ELSE IF IsEmptyResult(result)
                           THEN /\ local' = [local EXCEPT ![p] = l]
                                /\ pc' = [pc EXCEPT ![p] = "line109"]
                           ELSE /\ local' = [local EXCEPT ![p] = docs]
                                /\ pc' = [pc EXCEPT ![p] =
                                      IF ZipLen(docs) = 0 THEN "line151" ELSE "line126"]
              /\ UNCHANGED ret
    /\ UNCHANGED <<valves, args, emits>>

\* Lines 109-117: the "no results" status and the text naming the query.
SearchNoResult(p) ==
    /\ pc[p] = "line109"
    /\ \/ /\ ~args[p].event_emitter
          /\ ret' = [ret EXCEPT ![p] = NoResultText(args[p].query)]
          /\ pc' = [pc EXCEPT ![p] = "done"]
          /\ UNCHANGED <<emits, local>>
       \/ /\ args[p].event_emitter
          /\ Emit(p, NoResultStatus, TRUE)
          /\ ret' = [ret EXCEPT ![p] = NoResultText(args[p].query)]
          /\ pc' = [pc EXCEPT ![p] = "done"]
          /\ UNCHANGED local
       \/ /\ args[p].event_emitter
          /\ Emit(p, NoResultStatus, FALSE)
          /\ local' = [local EXCEPT ![p].e = Some(SinkError)]
          /\ pc' = [pc EXCEPT ![p] = "line169"]
          /\ UNCHANGED ret
    /\ UNCHANGED <<valves, args, calls>>

\* The citations the sinks of invocations 1..q have taken.
RECURSIVE CitationsUpTo(_)
CitationsUpTo(q) ==
    IF q = 0 THEN 0
    ELSE CitationsUpTo(q - 1)
            + Len(SelectSeq(Events(q), LAMBDA ev : ev.type = "citation"))

\* A citation counter kept on the instance, shared by the invocations.
citation_id_shared(p) == 1 + CitationsUpTo(NumProcs)

\* Line 127: citation_id = i + 1, i the index enumerate() gives.
citation_id(p) == local[p].i + 1

\* Lines 126-149: one iteration of the loop over the zipped lists.
SearchLoop(p) ==
    /\ pc[p] = "line126"
    /\ LET l == local[p]
           i == l.i
           doc == l.documents[i + 1]
           metadata == l.metadatas[i + 1]
           distance == l.distances[i + 1]
           source_name == SourceName(metadata, citation_id(p))
           appended == [l EXCEPT
                          !.formatted_context = @ \o Block(citation_id(p), source_name, doc),
                          !.i = i + 1]
           next == IF i + 1 < ZipLen(l) THEN "line126" ELSE "line151"
       IN  \/ /\ ~args[p].event_emitter
              /\ local' = [local EXCEPT ![p] = appended]
              /\ pc' = [pc EXCEPT ![p] = next]
              /\ UNCHANGED emits
           \/ /\ args[p].event_emitter
              /\ Emit(p, CitationEvent(doc, metadata, distance, citation_id(p)), TRUE)
              /\ local' = [local EXCEPT ![p] = appended]
              /\ pc' = [pc EXCEPT ![p] = next]
           \/ /\ args[p].event_emitter
              /\ Emit(p, CitationEvent(doc, metadata, distance, citation_id(p)), FALSE)
              /\ local' = [local EXCEPT ![p].e = Some(SinkError)]
              /\ pc' = [pc EXCEPT ![p] = "line169"]
    /\ UNCHANGED <<valves, args, calls, ret>>

\* Lines 151-167: the "complete" status and the final text.
SearchComplete(p) ==
    /\ pc[p] = "line151"
    /\ LET done == CompleteStatus(Len(local[p].documents))
           text == FinalText(local[p].formatted_context)
       IN  \/ /\ ~args[p].event_emitter
              /\ ret' = [ret EXCEPT ![p] = text]
              /\ pc' = [pc EXCEPT ![p] = "done"]
              /\ UNCHANGED <<emits, local>>
           \/ /\ args[p].event_emitter
              /\ Emit(p, done, TRUE)
              /\ ret' = [ret EXCEPT ![p] = text]
              /\ pc' = [pc EXCEPT ![p] = "done"]
              /\ UNCHANGED local
           \/ /\ args[p].event_emitter
              /\ Emit(p, done, FALSE)
              /\ local' = [local EXCEPT ![p].e = Some(SinkError)]
              /\ pc' = [pc EXCEPT ![p] = "line169"]
              /\ UNCHANGED ret
    /\ UNCHANGED <<valves, args, calls>>

\* Lines 169-179: the handler of the try block.  It awaits the sink itself,
\* outside any try, so an exception of the sink leaves the coroutine.
SearchExcept(p) ==
    /\ pc[p] = "line169"
    /\ LET error_msg == ErrorMsg(local[p].e[1].msg)
       IN  \/ /\ ~args[p].event_emitter
              /\ ret' = [ret EXCEPT ![p] = error_msg]
              /\ pc' = [pc EXCEPT ![p] = "done"]
              /\ UNCHANGED <<emits, local>>
           \/ /\ args[p].event_emitter
              /\ Emit(p, Status(error_msg, TRUE), TRUE)
              /\ ret' = [ret EXCEPT ![p] = error_msg]
              /\ pc' = [pc EXCEPT ![p] = "done"]
              /\ UNCHANGED local
           \/ /\ args[p].event_emitter
              /\ Emit(p, Status(error_msg, TRUE), FALSE)
              /\ local' = [local EXCEPT ![p].e = Some(SinkError)]
              /\ pc' = [pc EXCEPT ![p] = "raised"]
              /\ UNCHANGED ret
    /\ UNCHANGED <<valves, args, calls>>

\* A listing that always asks for every knowledge base.
RegistryQueryUnrestricted(user) == [fn |-> "Knowledges.get_knowledge_bases"]

\* Lines 197-203: the registry query the listing issues.
RegistryQuery(user) ==
    IF HasId(user)
    THEN [fn |-> "Knowledges.get_knowledge_bases_by_user_id",
          id |-> user.id, permission |-> "read"]
    ELSE [fn |-> "Knowledges.get_knowledge_bases"]

\* What the registry may answer to a query.
RegistryOutcomes(query) ==
    IF query.fn = "Knowledges.get_knowledge_bases" THEN AllOutcomes
    ELSE ByUserOutcomes(query.id, query.permission)

\* Lines 195-222: list_available_knowledge_bases, which awaits nothing.
ListKnowledgeBases(p) ==
    /\ pc[p] = "line195"
    /\ LET query == RegistryQuery(args[p].user)
       IN  \E o \in RegistryOutcomes(query) :
              /\ calls' = [calls EXCEPT ![p] =
                    Append(@, [fn |-> query.fn, query |-> query, outcome |-> o])]
              /\ ret' = [ret EXCEPT ![p] =
                    IF o.raises THEN ListErrorMsg(o.msg)
                    ELSE IF o.value = <<>> THEN NoneAvailableText
                    ELSE ListText(o.value)]
    /\ pc' = [pc EXCEPT ![p] = "done"]
    /\ UNCHANGED <<valves, args, local, emits>>

\* ----------------------------------------------------------- specifications

\* The arguments and results a specification draws from.
Inputs(selectors, emitters, users, results) ==
    [selectors |-> selectors, emitters |-> emitters, users |-> users,
     results |-> results]

Step(p, in) ==
    \/ InvokeSearch(p, in)
    \/ InvokeList(p, in)
    \/ SearchStart(p)
    \/ SearchTry(p, in.results)
    \/ SearchNoResult(p)
    \/ SearchLoop(p)
    \/ SearchComplete(p)
    \/ SearchExcept(p)
    \/ ListKnowledgeBases(p)

\* One invocation, with every shape of retrieval result.
Next == Step(1, Inputs(FewSelectors, BOOLEAN, UserArgs, Results(MaxDocs)))

Spec == Init /\ [][Next]_vars

\* One invocation, with every selector string.
NextResolve == Step(1, Inputs(Selectors, BOOLEAN, UserArgs, FewResults(1)))

SpecResolve == Init /\ [][NextResolve]_vars

\* Concurrent invocations on one instance, each with a sink and a caller
\* identity, and no selector: kb_ids comes from the shared valves.
NextConc ==
    \E p \in Procs : Step(p, Inputs({None}, {TRUE}, {[id |-> "u1"]}, ConcResults))

SpecConc == Init /\ [][NextConc]_vars

\* ------------------------------------------------- what the claims speak of

Finished(p) == pc[p] \in {"done", "raised"}

IsSearch(p) == args[p].fn = "search_knowledge"

IsList(p) == args[p].fn = "list_available_knowledge_bases"

\* Whether text s contains text t.
Contains(s, t) ==
    \E i \in 1..(Len(s) - Len(t) + 1) : SubSeq(s, i, i + Len(t) - 1) = t

\* Whether an emission on p's sink raised.
SinkFailed(p) == \E k \in 1..Len(emits[p]) : ~emits[p][k].ok

\* The external calls of p to fn.
CallsTo(p, fn) == SelectSeq(calls[p], LAMBDA c : c.fn = fn)

\* Whether user resolution or retrieval raised in p.
CallRaised(p) ==
    \E k \in 1..Len(calls[p]) :
        /\ calls[p][k].fn \in {"Users.get_user_by_id", "query_collection"}
        /\ calls[p][k].outcome.raises

\* The message of the call that raised in p.
RaisedMsg(p) ==
    LET k == CHOOSE k \in 1..Len(calls[p]) :
                /\ calls[p][k].fn \in {"Users.get_user_by_id", "query_collection"}
                /\ calls[p][k].outcome.raises
    IN  calls[p][k].outcome.msg

\* Whether retrieval returned to p, and what.
Retrieved(p) ==
    /\ CallsTo(p, "query_collection") # <<>>
    /\ ~CallsTo(p, "query_collection")[1].outcome.raises

RetrievedResult(p) == CallsTo(p, "query_collection")[1].outcome.value

\* The first query's documents of what retrieval returned to p.
RetrievedDocs(p) ==
    LET d == Get(RetrievedResult(p), "documents", <<>>)
    IN  IF d = <<>> THEN <<>> ELSE d[1]

IsCitation(ev) == ev.type = "citation"

IsStatus(ev, done) == ev.type = "status" /\ ev.data.done = done

\* The first place at or after i where t occurs in s; 0 when none.
FindStr(s, t, i) ==
    LET hits == {j \in i..(Len(s) - Len(t) + 1) : SubSeq(s, j, j + Len(t) - 1) = t}
    IN  IF hits = {} THEN 0 ELSE CHOOSE j \in hits : \A h \in hits : j <= h

\* The tagged blocks a reader finds in a text: the id and the content of
\* each <source id="..." name="...">...</source>, in order.
RECURSIVE ParseBlocks(_)
ParseBlocks(s) ==
    LET open == "<source id=\""
        a == FindStr(s, open, 1)
        idEnd == FindStr(s, "\"", a + Len(open))
        tagEnd == FindStr(s, "\">", idEnd)
        close == FindStr(s, "</source>", tagEnd)
    IN  IF a = 0 \/ idEnd = 0 \/ tagEnd = 0 \/ close = 0 THEN <<>>
        ELSE <<[id |-> SubSeq(s, a + Len(open), idEnd - 1),
                content |-> SubSeq(s, tagEnd + 2, close - 1)]>>
             \o ParseBlocks(SubSeq(s, close + Len("</source>"), Len(s)))

\* ------------------------------------------------------------------- claims

\* C1: no exception propagates to the caller of search_knowledge or of
\* list_available_knowledge_bases, whatever the collaborators and the sink
\* do: no invocation ends by raising.
C1_NothingEscapes == \A p \in Procs : pc[p] # "raised"

\* C2: when retrieval returns N >= 1 documents to an invocation with a sink
\* (here: and no emission raised), the sink gets exactly the "searching"
\* status, N citations, the i-th carrying the i-th document, and then the
\* one "complete" status reporting N; the returned text holds exactly N
\* tagged blocks with ids 1..N, the i-th block's content the i-th document.
C2_CitationsAndBlocks ==
    \A p \in Procs :
        (/\ pc[p] = "done" /\ IsSearch(p) /\ args[p].event_emitter
         /\ ~SinkFailed(p) /\ Retrieved(p) /\ Len(RetrievedDocs(p)) >= 1)
        => LET docs == RetrievedDocs(p)
               n == Len(docs)
               ev == Events(p)
               blocks == ParseBlocks(ret[p])
           IN  /\ Len(ev) = n + 2
               /\ \A i \in 1..n :
                     IsCitation(ev[i + 1]) /\ ev[i + 1].data.document = <<docs[i]>>
               /\ ev[n + 2] = Status("Found " \o ToString(n) \o " relevant documents", TRUE)
               /\ Len(blocks) = n
               /\ \A i \in 1..n :
                     blocks[i].id = ToString(i) /\ blocks[i].content = docs[i]

\* C3: an invocation of search_knowledge with no (or an empty) selector
\* and an empty configured default ends by returning the fixed "no
\* knowledge bases specified" message, having made no external call.
C3_NoKbReturnsFixedMessage ==
    \A p \in Procs :
        (/\ Finished(p) /\ IsSearch(p)
         /\ ~Truthy(args[p].knowledge_base_ids)
         /\ valves.default_knowledge_bases = "")
        => /\ pc[p] = "done"
           /\ ret[p] = NoKBText
           /\ calls[p] = <<>>

\* C4: when user resolution or retrieval raises with message m and the sink
\* does not fail, search_knowledge returns "Error searching knowledge
\* bases: " followed by m; with a sink, the "searching" status emitted
\* before stays, and the last notification is a status with done set whose
\* description is that text.
C4_ErrorReturn ==
    \A p \in Procs :
        (Finished(p) /\ IsSearch(p) /\ CallRaised(p) /\ ~SinkFailed(p))
        => LET text == "Error searching knowledge bases: " \o RaisedMsg(p)
           IN  /\ pc[p] = "done"
               /\ ret[p] = text
               /\ args[p].event_emitter =>
                     Events(p) = <<StartStatus,
                                   [type |-> "status",
                                    data |-> [description |-> text, done |-> TRUE]]>>
               /\ ~args[p].event_emitter => Events(p) = <<>>

C4_Witness ==
    \E p \in Procs :
        /\ pc[p] = "done" /\ IsSearch(p) /\ args[p].event_emitter
        /\ CallRaised(p) /\ ~SinkFailed(p)
        /\ RaisedMsg(p) = "collection not found"
        /\ Len(Events(p)) = 2

\* The places of the commas of s.
Commas(s) == {i \in 1..Len(s) : Char(s, i) = ","}

\* The k-th comma of s, counted from the left.
CommaAt(s, k) ==
    CHOOSE c \in Commas(s) : Cardinality({d \in Commas(s) : d < c}) = k - 1

\* Whether ids is s cut at its commas, each piece without the whitespace
\* around it: stated by the places of the commas and of the first and last
\* non-blank character between two of them.
IsTrimmedSplit(ids, s) ==
    LET n == Cardinality(Commas(s)) + 1
        lo(k) == IF k = 1 THEN 1 ELSE CommaAt(s, k - 1) + 1
        hi(k) == IF k = n THEN Len(s) ELSE CommaAt(s, k) - 1
        ink(k) == {i \in lo(k)..hi(k) : ~IsSpace(Char(s, i))}
        first(k) == CHOOSE i \in ink(k) : \A j \in ink(k) : i <= j
        last(k) == CHOOSE i \in ink(k) : \A j \in ink(k) : i >= j
    IN  /\ Len(ids) = n
        /\ \A k \in 1..n :
              ids[k] = IF ink(k) = {} THEN "" ELSE SubSeq(s, first(k), last(k))

\* C5: the id list passed to retrieval is, for a non-empty selector, the
\* selector split on commas with each element trimmed and the order kept,
\* whatever the configured default, and never an empty list ("a, b ,c"
\* gives a, b, c); for an absent selector and a non-empty default, the
\* default split and trimmed the same way.
C5_ResolvedIds ==
    \A p \in Procs :
        \A k \in 1..Len(calls[p]) :
            calls[p][k].fn = "query_collection"
            => LET ids == calls[p][k].collection_names
                   sel == args[p].knowledge_base_ids
               IN  /\ Truthy(sel) =>
                         /\ IsTrimmedSplit(ids, sel[1])
                         /\ Len(ids) >= 1
                   /\ sel = Some(ExampleSelector) => ids = <<"a", "b", "c">>
                   /\ (~Truthy(sel) /\ valves.default_knowledge_bases # "") =>
                         IsTrimmedSplit(ids, valves.default_knowledge_bases)

C5_Witness ==
    \E p \in Procs :
        /\ args[p].knowledge_base_ids = Some(ExampleSelector)
        /\ valves.default_knowledge_bases # ""
        /\ CallsTo(p, "query_collection") # <<>>
        /\ CallsTo(p, "query_collection")[1].collection_names = <<"a", "b", "c">>

\* Whether what retrieval returned to p is empty or has no documents.
RetrievedNothing(p) == Retrieved(p) /\ RetrievedDocs(p) = <<>>

\* What C6 says of an invocation whose retrieval returned nothing.
NoResultOutcome(p) ==
    /\ pc[p] = "done"
    /\ Contains(ret[p], args[p].query)
    /\ Contains(ret[p], "No relevant information found")
    /\ args[p].event_emitter =>
          /\ Cardinality({k \in 1..Len(Events(p)) :
                             Events(p)[k] = [type |-> "status",
                                             data |-> [description |-> "No relevant knowledge found",
                                                       done |-> TRUE]]}) = 1
          /\ \A k \in 1..Len(Events(p)) :
                /\ ~IsCitation(Events(p)[k])
                /\ ~Contains(Events(p)[k].data.description, "Found ")

NoResultEmissionFailed(p) ==
    \E k \in 1..Len(emits[p]) :
        emits[p][k] = [event |-> NoResultStatus, ok |-> FALSE]

C7_PermissionFilteredListing ==
    \A p \in Procs :
        (pc[p] = "done" /\ IsList(p))
        => /\ Len(calls[p]) = 1
           /\ IF HasId(args[p].user)
              THEN /\ calls[p][1].query =
                         [fn |-> "Knowledges.get_knowledge_bases_by_user_id",
                          id |-> args[p].user.id, permission |-> "read"]
                   /\ \A k \in 1..Len(Registry) :
                         Contains(ret[p], "(ID: " \o Tick \o Registry[k].id \o Tick \o ")")
                         => args[p].user.id \in Readers(Registry[k].id)
              ELSE calls[p][1].query = [fn |-> "Knowledges.get_knowledge_bases"]

C7_Witness ==
    \E p \in Procs :
        /\ pc[p] = "done" /\ IsList(p) /\ HasId(args[p].user)
        /\ Contains(ret[p], "(ID: " \o Tick \o "kb1" \o Tick \o ")")
        /\ Contains(ret[p], "(ID: " \o Tick \o "kb3" \o Tick \o ")")

\* C8: search_knowledge resolves the id list before it emits anything: the
\* sink has been given something only once kb_ids holds the resolved list,
\* and an invocation that returns the "no knowledge bases specified"
\* message has emitted nothing.
C8_ResolveBeforeEmit ==
    \A p \in Procs :
        IsSearch(p)
        => /\ emits[p] # <<>> => local[p].kb_ids # <<>>
           /\ (pc[p] = "done" /\ ret[p] = NoKBText) => emits[p] = <<>>

\* C9: in every search_knowledge invocation that has a sink and returns,
\* a status with done = false is followed by exactly one status with
\* done = true, which is the last notification of the invocation.
C9_StatusProtocol ==
    \A p \in Procs :
        (pc[p] = "done" /\ IsSearch(p) /\ args[p].event_emitter)
        => LET ev == Events(p)
           IN  (\E k \in 1..Len(ev) : IsStatus(ev[k], FALSE))
               => /\ IsStatus(ev[Len(ev)], TRUE)
                  /\ Cardinality({k \in 1..Len(ev) : IsStatus(ev[k], TRUE)}) = 1

\* What one invocation of search_knowledge does when it runs alone with
\* arguments a under configuration v, given the answers cs of the external
\* calls and the outcomes so of its emissions: how it ends, the text it
\* returns, and the notifications it attempts, in order.
AloneSearch(a, v, cs, so) ==
    LET em == a.event_emitter
        ok(k) == k > Len(so) \/ so[k]
        start == IF em THEN <<StartStatus>> ELSE <<>>
        raised == SelectSeq(cs, LAMBDA c :
                      /\ c.fn \in {"Users.get_user_by_id", "query_collection"}
                      /\ c.outcome.raises)
        answers == SelectSeq(cs, LAMBDA c : c.fn = "query_collection")
        errtext(m) == "Error searching knowledge bases: " \o m
        end(how, text, attempted) ==
            [pc |-> how, ret |-> text, attempted |-> attempted]
        fail(sofar, m) ==
            IF ~em THEN end("done", errtext(m), <<>>)
            ELSE LET att == Append(sofar, Status(errtext(m), TRUE))
                 IN  IF ok(Len(att)) THEN end("done", errtext(m), att)
                     ELSE end("raised", "", att)
        walk(plan, text) ==
            LET bad == {k \in 1..Len(plan) : ~ok(k)}
            IN  IF ~em THEN end("done", text, <<>>)
                ELSE IF bad = {} THEN end("done", text, plan)
                ELSE fail(SubSeq(plan, 1, CHOOSE f \in bad : \A g \in bad : f <= g),
                          SinkError.msg)
    IN  IF em /\ ~ok(1) THEN end("raised", "", <<StartStatus>>)
        ELSE IF ~Truthy(a.knowledge_base_ids) /\ v.default_knowledge_bases = ""
        THEN end("done", NoKBText, start)
        ELSE IF raised # <<>> THEN fail(start, raised[1].outcome.msg)
        ELSE IF answers = <<>> THEN end("running", "", start)
        ELSE LET result == answers[1].outcome.value
                 docs == result.documents[1]
                 metas == Get(result, "metadatas", <<<<>>>>)[1]
                 dists == Get(result, "distances", <<<<>>>>)[1]
                 n == Min(Len(docs), Min(Len(metas), Len(dists)))
                 cites == [i \in 1..n |-> CitationEvent(docs[i], metas[i], dists[i], i)]
                 blocks == [i \in 1..n |-> Block(i, SourceName(metas[i], i), docs[i])]
             IN  IF IsEmptyResult(result)
                 THEN walk(start \o <<NoResultStatus>>, NoResultText(a.query))
                 ELSE walk(start \o cites \o <<CompleteStatus(Len(docs))>>,
                           FinalText(Join(blocks, "")))

\* The same for list_available_knowledge_bases.
AloneList(a, cs) ==
    LET o == cs[1].outcome
    IN  [pc |-> "done",
         ret |-> IF o.raises THEN "Error listing knowledge bases: " \o o.msg
                 ELSE IF o.value = <<>> THEN NoneAvailableText
                 ELSE ListText(o.value),
         attempted |-> <<>>]

\* How p ended, what it returned and what it attempted on its sink.
Observed(p) ==
    [pc |-> pc[p], ret |-> ret[p],
     attempted |-> [k \in 1..Len(emits[p]) |-> emits[p][k].event]]

SinkOutcomes(p) == [k \in 1..Len(emits[p]) |-> emits[p][k].ok]

\* Every finished invocation did what it does alone.
AsIfAlone ==
    \A p \in Procs :
        Finished(p)
        => Observed(p) = IF IsSearch(p)
                         THEN AloneSearch(args[p], valves, calls[p], SinkOutcomes(p))
                         ELSE AloneList(args[p], calls[p])

\* C10: for concurrent invocations on one Tools instance, interleaved at
\* their awaits, no step modifies the configuration object, and each
\* invocation returns the text and emits the notifications (citation ids
\* from 1) that it does when it runs alone with the same answers.
C10_Isolation == [][valves' = valves]_vars /\ []AsIfAlone

\* One invocation has finished with two citations while another is
\* suspended in its loop, one citation emitted.
C10_Witness ==
    /\ pc[1] = "done" /\ IsSearch(1) /\ ~SinkFailed(1)
    /\ Len(SelectSeq(Events(1), IsCitation)) = 2
    /\ pc[2] = "line126" /\ local[2].i = 1
    /\ Len(SelectSeq(Events(2), IsCitation)) = 1

=============================================================================
